---- MODULE Spec2Model ----
(***************************************************************************)
(* Model of colour/recovery/jakob2019.py: the Jakob and Hanika (2019)      *)
(* reflectance recovery.                                                   *)
(*                                                                         *)
(*   - the pure numerical functions (create_lightness_scale,               *)
(*     dimensionalise_coefficients, spectral_model),                       *)
(*   - the solver find_coefficients and its entry point                    *)
(*     RGB_to_sd_Jakob2019,                                                *)
(*   - the lookup-table class Jakob2019Interpolator.                       *)
(*                                                                         *)
(* Numbers.  TLC has 32-bit integers and no floats.  Three representations *)
(* are used, each named where it is used:                                  *)
(*   Fx   fixed point, One units to 1.0, every product and quotient        *)
(*        rounded to the nearest unit (the lightness scale, RGB values,    *)
(*        grid coordinates and grid entries);                              *)
(*   Rat  exact rationals <<n, d>> in lowest terms (the polynomial U of    *)
(*        the spectral model, wavelengths, coefficients);                  *)
(*   Rx   fixed point with ROne units to 1.0 (the square root and the      *)
(*        quotient of the reflectance R, where rounding decides whether R  *)
(*        reaches 0 or 1).                                                 *)
(***************************************************************************)
EXTENDS Integers, Sequences, FiniteSets, TLC

VARIABLES
    pure,   \* one evaluation of a pure function: its inputs and its results
    heap,   \* the spectral objects (cmfs, illuminants): object id -> contents
    call,   \* process -> the call it runs: position, arguments, frame, result
    interp  \* the Jakob2019Interpolator instance and the call in progress on it

(***************************************************************************)
(* Arithmetic                                                              *)
(***************************************************************************)

Abs(x) == IF x < 0 THEN -x ELSE x

Sign(x) == IF x < 0 THEN -1 ELSE 1

Max2(a, b) == IF a >= b THEN a ELSE b

\* One step of the long multiplication in base 16: h = <<q, r>> for the
\* multiplier's higher digits, digit its lowest digit.
MulDivStep(h, a, digit, c) ==
    <<16 * h[1] + ((16 * h[2] + digit * a) \div c), (16 * h[2] + digit * a) % c>>

\* <<a*b \div c, a*b % c>> for naturals a, b and c > 0, without forming a*b
\* (a and c below 2^26).
RECURSIVE MulDivQR(_, _, _)
MulDivQR(a, b, c) ==
    IF b = 0 THEN <<0, 0>>
    ELSE CHOOSE qr \in {MulDivStep(h, a, b % 16, c) :
                            h \in {MulDivQR(a, b \div 16, c)}} : TRUE

RoundQR(qr, c) == qr[1] + (IF 2 * qr[2] >= c THEN 1 ELSE 0)

\* a*b/c rounded to the nearest integer (halves away from zero), c > 0.
RoundMulDiv(a, b, c) ==
    CHOOSE r \in {Sign(x) * Sign(y) * RoundQR(MulDivQR(Abs(x), Abs(y), z), z) :
                    x \in {a}, y \in {b}, z \in {c}} : TRUE

ISqrtStep(s, n) == IF (s + 1) * (s + 1) <= n THEN s + 1 ELSE s

\* floor(sqrt(n)) for a natural n.
RECURSIVE ISqrt(_)
ISqrt(n) == IF n < 2 THEN n ELSE ISqrtStep(2 * ISqrt(n \div 4), n)

RoundSqrtStep(s, n) == IF n > s * s + s THEN s + 1 ELSE s

\* sqrt(n) rounded to the nearest integer.
RoundSqrt(n) == RoundSqrtStep(ISqrt(n), n)

RECURSIVE GCD(_, _)
GCD(a, b) == IF b = 0 THEN a ELSE GCD(b, a % b)

(***************************************************************************)
(* Fx: fixed point, One units to 1.0.                                      *)
(***************************************************************************)

\* 2^24 units to 1.0: fine enough that the 64-entry lightness scale of the
\* default arguments keeps its neighbouring entries apart.
One == 4096 * 4096

FxMul(x, y) == RoundMulDiv(x, y, One)

FxDiv(x, y) == Sign(y) * RoundMulDiv(x, One, Abs(y))

\* The 1e-10 added to max(RGB) (lines 309, 322, 449): a positive quantity
\* far below every gap of the scale; two units, so that a value strictly
\* between x and x + Eps exists.
Eps == 2

(***************************************************************************)
(* Rat: exact rationals <<n, d>>, d > 0, in lowest terms.                  *)
(***************************************************************************)

RNorm(n, d) ==
    IF n = 0 THEN <<0, 1>>
    ELSE <<Sign(d) * (n \div GCD(Abs(n), Abs(d))), Abs(d) \div GCD(Abs(n), Abs(d))>>

RInt(n) == <<n, 1>>

RAddL(p, q, g) ==
    RNorm(p[1] * (q[2] \div g) + q[1] * (p[2] \div g), (p[2] \div g) * q[2])

RAdd(p, q) == RAddL(p, q, GCD(p[2], q[2]))

RNeg(p) == <<-p[1], p[2]>>

RSub(p, q) == RAdd(p, RNeg(q))

RMulL(p, q, g1, g2) ==
    RNorm((p[1] \div g1) * (q[1] \div g2), (p[2] \div g2) * (q[2] \div g1))

RMul(p, q) ==
    IF p[1] = 0 \/ q[1] = 0 THEN <<0, 1>>
    ELSE RMulL(p, q, GCD(Abs(p[1]), q[2]), GCD(Abs(q[1]), p[2]))

RDiv(p, q) == RMul(p, <<Sign(q[1]) * q[2], Abs(q[1])>>)

RLess(p, q) == p[1] * q[2] < q[1] * p[2]

\* p rounded to the nearest multiple of 1/one, in units of 1/one.
RRound(p, one) == RoundMulDiv(p[1], one, p[2])

(***************************************************************************)
(* Bounds of the pure-function inputs                                      *)
(***************************************************************************)

\* create_lightness_scale is evaluated for steps in 0..MaxScaleSteps.
MaxScaleSteps == 64

\* Dimensionless coefficients are drawn from -MaxCoeff..MaxCoeff and
\* -BigCoeff, BigCoeff (a saturated colour drives the solver to large values).
MaxCoeff == 1

BigCoeff == 12

\* Spectral shapes: start in 0..MaxStart, end - start in 1..MaxSpan,
\* interval in 1..MaxInterval, and the default shape.
MaxStart == 1

MaxSpan == 3

MaxInterval == 2

CoeffValues == (-MaxCoeff..MaxCoeff) \cup {-BigCoeff, BigCoeff}

(***************************************************************************)
(* SpectralShape and the default shape (line 45)                           *)
(***************************************************************************)

SpectralShape(start, end, interval) ==
    [start |-> start, end |-> end, interval |-> interval]

DEFAULT_SPECTRAL_SHAPE_JAKOB_2019 == SpectralShape(360, 780, 5)

Shapes ==
    {SpectralShape(s, s + w, i) :
        s \in 0..MaxStart, w \in 1..MaxSpan, i \in 1..MaxInterval}
    \cup {DEFAULT_SPECTRAL_SHAPE_JAKOB_2019}

\* len(shape.range()): round((interval + end - start) / interval).
shape_samples(shape) ==
    RoundMulDiv(shape.interval + shape.end - shape.start, 1, shape.interval)

\* shape.range(): linspace(start, end, samples), as rationals.
shape_range(shape) ==
    [k \in 0..(shape_samples(shape) - 1) |->
        IF shape_samples(shape) = 1 THEN RInt(shape.start)
        ELSE RAdd(RInt(shape.start),
                  RNorm(k * (shape.end - shape.start), shape_samples(shape) - 1))]

\* np.linspace(0, 1, n), as rationals (error_function, line 122).
linspace_01(n) ==
    [k \in 0..(n - 1) |-> IF n = 1 THEN RInt(0) ELSE RNorm(k, n - 1)]

(***************************************************************************)
(* create_lightness_scale (lines 222-234), in Fx                           *)
(***************************************************************************)

\* smoothstep(x) = x ** 2 * (3 - 2 * x)
smoothstep(x) == FxMul(FxMul(x, x), 3 * One - 2 * x)

\* The k-th entry of np.linspace(0, 1, steps) in Fx; one step gives [0.].
linear(steps, k) ==
    IF steps = 1 THEN 0 ELSE RoundMulDiv(k, One, steps - 1)

\* Mutant: the ramp without its end point (linspace(0, 1, steps, endpoint=False)).
create_lightness_scale_open(steps) ==
    [k \in 0..(steps - 1) |->
        smoothstep(smoothstep(RoundMulDiv(k, One, Max2(steps, 1))))]

create_lightness_scale(steps) ==
    [k \in 0..(steps - 1) |-> smoothstep(smoothstep(linear(steps, k)))]

(***************************************************************************)
(* dimensionalise_coefficients (lines 186-219), in Rat                     *)
(***************************************************************************)

dimensionalise_c_0(cp, start, span) ==
    RDiv(cp[1], RMul(span, span))

\* Mutant: the factor 2 of the linear term dropped.
dimensionalise_c_1_half(cp, start, span) ==
    RSub(RDiv(cp[2], span), RDiv(RMul(cp[1], start), RMul(span, span)))

dimensionalise_c_1(cp, start, span) ==
    RSub(RDiv(cp[2], span),
         RDiv(RMul(RMul(RInt(2), cp[1]), start), RMul(span, span)))

dimensionalise_c_2(cp, start, span) ==
    RAdd(RSub(RDiv(RMul(cp[1], RMul(start, start)), RMul(span, span)),
              RDiv(RMul(cp[2], start), span)),
         cp[3])

dimensionalise_coefficients(coefficients, shape) ==
    <<dimensionalise_c_0(coefficients, RInt(shape.start), RInt(shape.end - shape.start)),
      dimensionalise_c_1(coefficients, RInt(shape.start), RInt(shape.end - shape.start)),
      dimensionalise_c_2(coefficients, RInt(shape.start), RInt(shape.end - shape.start))>>

(***************************************************************************)
(* spectral_model (lines 51-66) and the normalised domain of               *)
(* error_function (lines 121-126)                                          *)
(***************************************************************************)

\* U = c_0 * wl ** 2 + c_1 * wl + c_2   (lines 60 and 124)
U_polynomial(c, wl) ==
    RAdd(RAdd(RMul(c[1], RMul(wl, wl)), RMul(c[2], wl)), c[3])

\* spectral_model's U over shape.range() (lines 58-60).
spectral_model_U(coefficients, shape) ==
    [k \in DOMAIN shape_range(shape) |->
        U_polynomial(coefficients, shape_range(shape)[k])]

\* error_function's U over wv = linspace(0, 1, len(shape.range()))
\* (lines 121-124).
error_function_U(coefficients, shape) ==
    [k \in DOMAIN shape_range(shape) |->
        U_polynomial(coefficients, linspace_01(shape_samples(shape))[k])]

\* Rx: the precision the square root and the quotient of R are rounded to.
\* float64 rounds relative to the value at 2^-53; the model rounds at an
\* absolute 1/ROne.
ROne == 16 * 16

R_sqrt(u) == RoundSqrt(ROne * ROne + u * u)

\* Mutant: the factor 2 of the denominator dropped.
R_of_u_undivided(u) == (ROne \div 2) + RoundMulDiv(u, ROne, R_sqrt(u))

\* R = 1 / 2 + U / (2 * sqrt(1 + U ** 2))   (line 61), u = U in Rx.
R_of_u(u) == (ROne \div 2) + RoundMulDiv(u, ROne, 2 * R_sqrt(u))

R_of_U(U) == R_of_u(RRound(U, ROne))

spectral_model(coefficients, shape) ==
    [k \in DOMAIN shape_range(shape) |->
        R_of_U(spectral_model_U(coefficients, shape)[k])]

(***************************************************************************)
(* The pure functions, evaluated on inputs drawn from the bounds           *)
(***************************************************************************)

RTriple(c) == <<RInt(c[1]), RInt(c[2]), RInt(c[3])>>

NoRat == <<RInt(0), RInt(0), RInt(0)>>

PureIdle ==
    [op |-> "none", done |-> FALSE, steps |-> 0, scale |-> <<>>,
     cp |-> NoRat, shape |-> DEFAULT_SPECTRAL_SHAPE_JAKOB_2019,
     coefficients |-> NoRat, U_shape |-> <<>>, U_normalised |-> <<>>,
     R |-> <<>>]

InitPureInputs ==
    \/ \E n \in 0..MaxScaleSteps :
          pure = [PureIdle EXCEPT !.op = "create_lightness_scale", !.steps = n]
    \/ \E c \in CoeffValues \X CoeffValues \X CoeffValues, sh \in Shapes :
          pure = [PureIdle EXCEPT !.op = "dimensionalise_coefficients",
                                  !.cp = RTriple(c), !.shape = sh]

\* scale = create_lightness_scale(lightness_steps)
Eval_create_lightness_scale ==
    /\ pure.op = "create_lightness_scale"
    /\ ~pure.done
    /\ pure' = [pure EXCEPT !.done = TRUE,
                            !.scale = create_lightness_scale(pure.steps)]
    /\ UNCHANGED <<heap, call, interp>>

\* coefficients = dimensionalise_coefficients(opt.x, shape)   (line 346),
\* with the polynomial of both domains.
Eval_dimensionalise_coefficients ==
    /\ pure.op = "dimensionalise_coefficients"
    /\ ~pure.done
    /\ pure' = [pure EXCEPT
          !.op = "spectral_model",
          !.coefficients = dimensionalise_coefficients(pure.cp, pure.shape),
          !.U_shape = spectral_model_U(
              dimensionalise_coefficients(pure.cp, pure.shape), pure.shape),
          !.U_normalised = error_function_U(pure.cp, pure.shape)]
    /\ UNCHANGED <<heap, call, interp>>

\* sd = spectral_model(coefficients, cmfs.shape)   (line 412)
Eval_spectral_model ==
    /\ pure.op = "spectral_model"
    /\ ~pure.done
    /\ pure' = [pure EXCEPT !.done = TRUE,
                            !.R = spectral_model(pure.coefficients, pure.shape)]
    /\ UNCHANGED <<heap, call, interp>>

(***************************************************************************)
(* The solver: find_coefficients (lines 237-350) and its entry point       *)
(* RGB_to_sd_Jakob2019 (lines 353-420)                                     *)
(*                                                                         *)
(* Two calls may be in progress at once (processes 1 and 2), over one heap *)
(* of spectral objects.  The module-level default cmfs and illuminant are  *)
(* built once, when the functions are defined, and every call that does    *)
(* not pass its own shares them.                                           *)
(***************************************************************************)

\* Caller-chosen lightness_steps range over 0..MaxSteps.
MaxSteps == 5

\* lightness_steps=64 of find_coefficients (line 247) and of
\* RGB_to_sd_Jakob2019 (line 362).
DEFAULT_LIGHTNESS_STEPS == 64

Procs == {1, 2}

ObjIds == {"CMFS_DEFAULT", "ILLUMINANT_DEFAULT", "CMFS_CALLER", "COPY_1", "COPY_2"}

\* The object illuminant.copy() allocates in process p.
CopyOf(p) == IF p = 1 THEN "COPY_1" ELSE "COPY_2"

\* The heap when the module has been imported: the default arguments of
\* lines 240-243 and 356-359, aligned to the default shape, and a cmfs a
\* caller has aligned to another shape.
InitialHeap ==
    [o \in ObjIds |->
        CASE o = "CMFS_DEFAULT" ->
                [data |-> "CIE 1931 2 Degree Standard Observer",
                 shape |-> DEFAULT_SPECTRAL_SHAPE_JAKOB_2019]
          [] o = "ILLUMINANT_DEFAULT" ->
                [data |-> "D65", shape |-> DEFAULT_SPECTRAL_SHAPE_JAKOB_2019]
          [] o = "CMFS_CALLER" ->
                [data |-> "CIE 1931 2 Degree Standard Observer",
                 shape |-> SpectralShape(380, 730, 10)]
          [] OTHER ->
                [data |-> "unallocated", shape |-> DEFAULT_SPECTRAL_SHAPE_JAKOB_2019]]

np_max(RGB) == Max2(RGB[1], Max2(RGB[2], RGB[3]))

\* x / y elementwise as numpy divides: no exception, nan for a zero divisor.
np_divide(x, y) == IF y = 0 THEN "nan" ELSE FxDiv(x, y)

\* RGB_to_Lab (lines 296-306): a conversion of the external colorimetry
\* library, kept as the term of its arguments (the illuminant fixes
\* illuminant_xy).
RGB_to_Lab(RGB, illuminant) == <<"Lab", RGB, illuminant>>

\* scipy.optimize.minimize(error_function, x0, args, method="L-BFGS-B",
\* jac=True): deterministic in its arguments and otherwise uninterpreted, so
\* its result is kept as the term of its arguments.
minimize(x0, target, shape, cmfs) ==
    [x |-> <<"x", x0, target, shape, cmfs>>,
     fun |-> <<"fun", x0, target, shape, cmfs>>]

NoOpt == [x |-> <<>>, fun |-> <<>>]

\* The frame of one find_coefficients call: its parameters as received and
\* its locals.  intermediates is history: the lightness scale[i] of every
\* intermediate minimisation run so far, in order.
Frame(target_RGB, cmfs, illuminant, coefficients_0, dimensionalise, use_feedback, lightness_steps) ==
    [target_RGB |-> target_RGB, cmfs |-> cmfs, illuminant |-> illuminant,
     coefficients_0 |-> coefficients_0, dimensionalise |-> dimensionalise,
     use_feedback |-> use_feedback, lightness_steps |-> lightness_steps,
     shape |-> DEFAULT_SPECTRAL_SHAPE_JAKOB_2019, target_max |-> 0,
     scale |-> <<>>, i |-> 0, going_up |-> FALSE, opt |-> NoOpt,
     intermediates |-> <<>>]

NoFrame ==
    Frame(<<0, 0, 0>>, "CMFS_DEFAULT", "ILLUMINANT_DEFAULT", <<0, 0, 0>>,
          TRUE, TRUE, 0)

\* find_coefficients called by a caller that passes every argument.
find_coefficients_call(args) ==
    Frame(args.target_RGB, args.cmfs, args.illuminant, args.coefficients_0,
          args.dimensionalise, args.use_feedback, args.lightness_steps)

\* RGB_to_sd_Jakob2019, lines 403-410: find_coefficients(target_RGB,
\* colourspace, cmfs, illuminant); the other parameters take the defaults
\* of lines 244-247.
RGB_to_sd_Jakob2019_call(args) ==
    Frame(args.target_RGB, args.cmfs, args.illuminant, <<0, 0, 0>>,
          TRUE, TRUE, DEFAULT_LIGHTNESS_STEPS)

\* Mutant: the illuminant aligned in place, without the copy.
align_illuminant_in_place(h, fc, copy) ==
    IF h[fc.illuminant].shape # h[fc.cmfs].shape
    THEN [heap |-> [h EXCEPT ![fc.illuminant].shape = h[fc.cmfs].shape],
          illuminant |-> fc.illuminant]
    ELSE [heap |-> h, illuminant |-> fc.illuminant]

\* Lines 285-289: illuminant = illuminant.copy().align(cmfs.shape) when the
\* shapes differ.
align_illuminant(h, fc, copy) ==
    IF h[fc.illuminant].shape # h[fc.cmfs].shape
    THEN [heap |-> [h EXCEPT ![copy] = [data |-> h[fc.illuminant].data,
                                        shape |-> h[fc.cmfs].shape]],
          illuminant |-> copy]
    ELSE [heap |-> h, illuminant |-> fc.illuminant]

\* create_lightness_scale for every number of steps the model uses,
\* evaluated once.
LightnessScales ==
    [steps \in 0..Max2(Max2(MaxSteps, MaxScaleSteps), DEFAULT_LIGHTNESS_STEPS) |->
        create_lightness_scale(steps)]

\* Line 312: i = lightness_steps // 3
feedback_start(lightness_steps) == lightness_steps \div 3

\* Lines 309-313 with scale = create_lightness_scale(lightness_steps), for
\* lightness_steps >= 1.
feedback_locals(fc, scale) ==
    [fc EXCEPT
        !.target_max = np_max(fc.target_RGB) + Eps,
        !.scale = scale,
        !.i = feedback_start(fc.lightness_steps),
        !.going_up = scale[feedback_start(fc.lightness_steps)] < np_max(fc.target_RGB)]

feedback_begin(fc) ==
    feedback_locals(fc, LightnessScales[fc.lightness_steps])

\* Mutant: the next entry compared with > for >= (and < for <=), so the walk
\* goes one entry further when the next entry equals target_max.
walk_stops_late(fc) ==
    IF fc.going_up
    THEN IF fc.i + 1 = fc.lightness_steps THEN TRUE
         ELSE fc.scale[fc.i + 1] > fc.target_max
    ELSE IF fc.i = 0 THEN TRUE
         ELSE fc.scale[fc.i - 1] < fc.target_max

\* Lines 315-320: the break conditions of the walk.
walk_stops(fc) ==
    IF fc.going_up
    THEN IF fc.i + 1 = fc.lightness_steps THEN TRUE
         ELSE fc.scale[fc.i + 1] >= fc.target_max
    ELSE IF fc.i = 0 THEN TRUE
         ELSE fc.scale[fc.i - 1] <= fc.target_max

\* Line 322: intermediate_RGB = scale[i] * (target_RGB + 1e-10) / target_max
intermediate_RGB(fc) ==
    [c \in 1..3 |->
        np_divide(FxMul(fc.scale[fc.i], fc.target_RGB[c] + Eps), fc.target_max)]

\* Mutant: the index moved two entries at a time.
walk_adopt_by_two(fc, opt) ==
    [fc EXCEPT
        !.opt = opt,
        !.coefficients_0 = opt.x,
        !.i = IF fc.going_up THEN fc.i + 2 ELSE fc.i - 2,
        !.intermediates = Append(fc.intermediates, fc.scale[fc.i])]

\* Mutant: the solution of an intermediate minimisation dropped, every
\* minimisation seeded with the caller's coefficients_0.
walk_adopt_unseeded(fc, opt) ==
    [fc EXCEPT
        !.opt = opt,
        !.i = IF fc.going_up THEN fc.i + 1 ELSE fc.i - 1,
        !.intermediates = Append(fc.intermediates, fc.scale[fc.i])]

\* Lines 325-334 with opt the result of the minimisation: its solution
\* becomes coefficients_0, and the index moves one entry.
walk_adopt(fc, opt) ==
    [fc EXCEPT
        !.opt = opt,
        !.coefficients_0 = opt.x,
        !.i = IF fc.going_up THEN fc.i + 1 ELSE fc.i - 1,
        !.intermediates = Append(fc.intermediates, fc.scale[fc.i])]

\* Lines 322-334: one intermediate minimisation, seeded with coefficients_0.
walk_advance(fc, h) ==
    walk_adopt(fc, minimize(fc.coefficients_0,
                            RGB_to_Lab(intermediate_RGB(fc), h[fc.illuminant]),
                            fc.shape, h[fc.cmfs]))

\* Lines 336-343: the final minimisation against the true target.
final_minimize(fc, h) ==
    [fc EXCEPT
        !.opt = minimize(fc.coefficients_0,
                         RGB_to_Lab(fc.target_RGB, h[fc.illuminant]),
                         fc.shape, h[fc.cmfs])]

\* Lines 345-350: (coefficients, opt.fun); the dimensionalised coefficients
\* are kept as the term of opt.x and the shape.
find_coefficients_return(fc) ==
    [coefficients |-> IF fc.dimensionalise
                      THEN <<"dimensionalise_coefficients", fc.opt.x, fc.shape>>
                      ELSE fc.opt.x,
     error |-> fc.opt.fun]

NoRet == [coefficients |-> <<>>, error |-> <<>>, sd |-> <<>>]

NoArgs ==
    [target_RGB |-> <<0, 0, 0>>, cmfs |-> "CMFS_DEFAULT",
     illuminant |-> "ILLUMINANT_DEFAULT", coefficients_0 |-> <<0, 0, 0>>,
     dimensionalise |-> TRUE, use_feedback |-> TRUE, lightness_steps |-> 0]

IdleCall ==
    [pc |-> "idle", entry |-> "none", args |-> NoArgs, fc |-> NoFrame,
     ret |-> NoRet]

\* A caller calls find_coefficients with all of its arguments.
Call_find_coefficients(p) ==
    /\ call[p].pc = "call_find_coefficients"
    /\ call' = [call EXCEPT ![p].pc = "find_coefficients",
                            ![p].fc = find_coefficients_call(call[p].args)]
    /\ UNCHANGED <<heap, pure, interp>>

\* RGB_to_sd_Jakob2019, lines 403-410.
RGB_to_sd_Jakob2019_begin(p) ==
    /\ call[p].pc = "RGB_to_sd_Jakob2019"
    /\ call' = [call EXCEPT ![p].pc = "find_coefficients",
                            ![p].fc = RGB_to_sd_Jakob2019_call(call[p].args)]
    /\ UNCHANGED <<heap, pure, interp>>

\* find_coefficients, lines 285-289.
find_coefficients_align(p) ==
    /\ call[p].pc = "find_coefficients"
    /\ heap' = align_illuminant(heap, call[p].fc, CopyOf(p)).heap
    /\ call' = [call EXCEPT
          ![p].pc = "shape",
          ![p].fc.illuminant = align_illuminant(heap, call[p].fc, CopyOf(p)).illuminant]
    /\ UNCHANGED <<pure, interp>>

\* find_coefficients, lines 291-294: shape = illuminant.shape.
find_coefficients_shape(p) ==
    /\ call[p].pc = "shape"
    /\ call' = [call EXCEPT ![p].pc = "feedback",
                            ![p].fc.shape = heap[call[p].fc.illuminant].shape]
    /\ UNCHANGED <<heap, pure, interp>>

\* find_coefficients, lines 308-313.  With no steps the scale is empty and
\* scale[i] raises IndexError.
find_coefficients_feedback(p) ==
    /\ call[p].pc = "feedback"
    /\ call' =
          IF ~call[p].fc.use_feedback
          THEN [call EXCEPT ![p].pc = "final"]
          ELSE IF call[p].fc.lightness_steps = 0
          THEN [call EXCEPT ![p].pc = "raised",
                            ![p].fc.target_max = np_max(call[p].fc.target_RGB) + Eps]
          ELSE [call EXCEPT ![p].pc = "walk",
                            ![p].fc = feedback_begin(call[p].fc)]
    /\ UNCHANGED <<heap, pure, interp>>

\* find_coefficients, lines 314-320: the walk breaks.
find_coefficients_walk_break(p) ==
    /\ call[p].pc = "walk"
    /\ walk_stops(call[p].fc)
    /\ call' = [call EXCEPT ![p].pc = "final"]
    /\ UNCHANGED <<heap, pure, interp>>

\* find_coefficients, lines 322-334: one iteration of the walk.
find_coefficients_walk_iterate(p) ==
    /\ call[p].pc = "walk"
    /\ ~walk_stops(call[p].fc)
    /\ call' = [call EXCEPT ![p].fc = walk_advance(call[p].fc, heap)]
    /\ UNCHANGED <<heap, pure, interp>>

\* The caller's record of what find_coefficients returned.
Returned(r) == [NoRet EXCEPT !.coefficients = r.coefficients, !.error = r.error]

\* find_coefficients, lines 336-350, back in the caller.
find_coefficients_final(p) ==
    /\ call[p].pc = "final"
    /\ \E fc \in {final_minimize(call[p].fc, heap)} :
          call' = [call EXCEPT
              ![p].pc = IF call[p].entry = "RGB_to_sd_Jakob2019"
                        THEN "spectral_model" ELSE "done",
              ![p].fc = fc,
              ![p].ret = Returned(find_coefficients_return(fc))]
    /\ UNCHANGED <<heap, pure, interp>>

\* RGB_to_sd_Jakob2019, lines 412-420: sd = spectral_model(coefficients,
\* cmfs.shape), kept as the term of its arguments.
RGB_to_sd_Jakob2019_return(p) ==
    /\ call[p].pc = "spectral_model"
    /\ call' = [call EXCEPT
          ![p].pc = "done",
          ![p].ret.sd = <<"spectral_model", call[p].ret.coefficients,
                          heap[call[p].args.cmfs].shape>>]
    /\ UNCHANGED <<heap, pure, interp>>

(***************************************************************************)
(* Jakob2019Interpolator (lines 423-463)                                   *)
(*                                                                         *)
(* One instance.  An attribute is <<>> while it has never been assigned    *)
(* and <<value>> once it has.  A table file is its 4-byte magic followed   *)
(* by 4-byte words: the resolution, res scale values, then                 *)
(* 3 * res^3 * 3 coefficients.                                             *)
(***************************************************************************)

\* Table files hold a resolution in 2..MaxRes.
MaxRes == 3

\* from_file is called at most MaxLoads times on the instance.
MaxLoads == 2

\* Position of coeffs[imax, a, b, c, k] in the flat array that line 438
\* reshapes to (3, res, res, res, 3); all indices from 0.
flat_index(res, imax, a, b, c, k) ==
    (((imax * res + a) * res + b) * res + c) * 3 + k

\* The n-th coefficient a table file stores, in Fx: values that differ
\* between neighbouring grid points on every axis.
TableEntry(n) == (((n * n + 3 * n) % 61) - 30) * (One \div 32)

\* The words of a complete table of resolution res, whose scale is the
\* lightness scale the tables are built with.
TableWords(res) ==
    <<res>> \o [j \in 1..res |-> LightnessScales[res][j - 1]]
            \o [n \in 1..(9 * res * res * res) |-> TableEntry(n - 1)]

\* The files from_file is called on: complete tables, a file of another
\* type, and tables cut short at every stage of the read.
Paths ==
    {<<"table", r>> : r \in 2..MaxRes}
    \cup {<<"bad_magic", 2>>, <<"short_magic", 2>>, <<"no_res", 2>>,
          <<"short_scale", 2>>, <<"short_grid", 2>>}

FileContents(path) ==
    CASE path[1] = "table" -> [magic |-> "SPEC", words |-> TableWords(path[2])]
      [] path[1] = "bad_magic" -> [magic |-> "JUNK", words |-> TableWords(path[2])]
      [] path[1] = "short_magic" -> [magic |-> "SP", words |-> <<>>]
      [] path[1] = "no_res" -> [magic |-> "SPEC", words |-> <<>>]
      [] path[1] = "short_scale" ->
            [magic |-> "SPEC", words |-> SubSeq(TableWords(path[2]), 1, path[2])]
      [] path[1] = "short_grid" ->
            [magic |-> "SPEC",
             words |-> SubSeq(TableWords(path[2]), 1, 1 + path[2] + 10)]
      [] OTHER -> [magic |-> "", words |-> <<>>]

NoResult == [finite |-> TRUE, value |-> <<0, 0, 0>>]

\* The result of an interpolation that fell outside the grid: three nan.
NanResult == [finite |-> FALSE, value |-> <<0, 0, 0>>]

\* The attributes of the instance.
Attributes(st) == [res |-> st.res, scale |-> st.scale, cubes |-> st.cubes]

\* The instance after __init__ (lines 424-425), with no call in progress.
\* RGB, point, ret and sd belong to the last call of coefficients or
\* RGB_to_sd.  before is history: the attributes when the last from_file
\* call began; reads is the sizes of the reads of the file from_file has
\* open; todo is the query a caller is about to make.
InterpFresh ==
    [pc |-> "idle", op |-> "none", exc |-> "none", loads |-> 0,
     res |-> <<>>, scale |-> <<>>, cubes |-> <<>>,
     path |-> <<"none", 0>>, pos |-> 0, reads |-> <<>>, coeffs |-> <<>>,
     before |-> [res |-> <<>>, scale |-> <<>>, cubes |-> <<>>],
     RGB |-> <<0, 0, 0>>, point |-> <<>>, ret |-> NoResult, sd |-> <<>>,
     todo |-> [RGB |-> <<0, 0, 0>>, point |-> <<>>]]

\* from_file, line 428: open(path, 'rb').
from_file_open(st, path) ==
    [st EXCEPT !.pc = "magic", !.op = "from_file", !.exc = "none",
               !.loads = st.loads + 1, !.path = path, !.pos = 0,
               !.reads = <<>>, !.coeffs = <<>>, !.before = Attributes(st),
               !.RGB = <<0, 0, 0>>, !.point = <<>>, !.ret = NoResult, !.sd = <<>>]

\* Mutant: the resolution read and assigned before the magic is compared.
from_file_magic_late(st, f) ==
    IF f.magic # "SPEC"
    THEN [st EXCEPT !.pc = "idle", !.exc = "ValueError",
                    !.reads = Append(Append(st.reads, 4), 4),
                    !.res = <<IF Len(f.words) >= 1 THEN f.words[1] ELSE 0>>]
    ELSE [st EXCEPT !.pc = "res", !.reads = Append(st.reads, 4)]

\* from_file, lines 429-432: fd.read(4) and the comparison with 'SPEC'.
from_file_magic(st, f) ==
    IF f.magic # "SPEC"
    THEN [st EXCEPT !.pc = "idle", !.exc = "ValueError",
                    !.reads = Append(st.reads, 4)]
    ELSE [st EXCEPT !.pc = "res", !.reads = Append(st.reads, 4)]

\* from_file, line 434: self.res = struct.unpack('i', fd.read(4))[0];
\* unpack raises struct.error on fewer than 4 bytes.
from_file_res(st, f) ==
    IF Len(f.words) < 1
    THEN [st EXCEPT !.pc = "idle", !.exc = "struct.error",
                    !.reads = Append(st.reads, 4)]
    ELSE [st EXCEPT !.pc = "scale", !.res = <<f.words[1]>>, !.pos = 1,
                    !.reads = Append(st.reads, 4)]

\* np.fromfile(fd, count=count, dtype=np.float32): the words that are left,
\* at most count of them.
np_fromfile(f, pos, count) ==
    SubSeq(f.words, pos + 1, IF pos + count <= Len(f.words)
                             THEN pos + count ELSE Len(f.words))

\* from_file, line 435: self.scale = np.fromfile(fd, count=self.res, ...).
from_file_scale(st, f) ==
    [st EXCEPT !.pc = "coeffs",
               !.scale = <<np_fromfile(f, st.pos, st.res[1])>>,
               !.pos = st.pos + Len(np_fromfile(f, st.pos, st.res[1])),
               !.reads = Append(st.reads, 4 * st.res[1])]

\* 3 * self.res ** 3 * 3
coeffs_count(res) == 3 * res * res * res * 3

\* from_file, lines 436-438: coeffs = np.fromfile(...), then reshape, which
\* raises ValueError when the size is not 3 * res^3 * 3.
from_file_coeffs(st, f) ==
    IF Len(np_fromfile(f, st.pos, coeffs_count(st.res[1]))) # coeffs_count(st.res[1])
    THEN [st EXCEPT !.pc = "idle", !.exc = "ValueError",
                    !.reads = Append(st.reads, 4 * coeffs_count(st.res[1]))]
    ELSE [st EXCEPT !.pc = "cubes",
                    !.coeffs = np_fromfile(f, st.pos, coeffs_count(st.res[1])),
                    !.pos = st.pos + coeffs_count(st.res[1]),
                    !.reads = Append(st.reads, 4 * coeffs_count(st.res[1]))]

\* np.linspace(0, 1, res), in Fx (line 440).
samples(res) == [j \in 1..res |-> linear(res, j - 1)]

StrictlyAscending(grid) == \A j \in 1..(Len(grid) - 1) : grid[j] < grid[j + 1]

\* from_file, lines 440-443: RegularGridInterpolator(axes, coeffs,
\* bounds_error=False), which raises ValueError unless every axis is
\* strictly ascending and as long as its dimension of coeffs.
from_file_cubes(st) ==
    IF Len(st.scale[1]) = st.res[1] /\ StrictlyAscending(st.scale[1])
    THEN [st EXCEPT !.pc = "idle", !.coeffs = <<>>,
                    !.cubes = <<[res |-> st.res[1], scale |-> st.scale[1],
                                 samples |-> samples(st.res[1]),
                                 values |-> st.coeffs]>>]
    ELSE [st EXCEPT !.pc = "idle", !.exc = "ValueError", !.coeffs = <<>>]

\* np.argmax(RGB): the first index of the maximum, from 0 (line 451).
np_argmax(RGB) ==
    IF RGB[1] = np_max(RGB) THEN 0 ELSE IF RGB[2] = np_max(RGB) THEN 1 ELSE 2

\* Line 449: chroma = RGB / (vmax + 1e-10), for vmax + 1e-10 # 0.
chroma(RGB) == [c \in 1..3 |-> FxDiv(RGB[c], np_max(RGB) + Eps)]

\* Lines 451-456: coords = (imax, v1, v2, v3).
coords(RGB) ==
    <<np_argmax(RGB),
      RGB[np_argmax(RGB) + 1],
      chroma(RGB)[((np_argmax(RGB) + 2) % 3) + 1],
      chroma(RGB)[((np_argmax(RGB) + 1) % 3) + 1]>>

\* RegularGridInterpolator: x lies outside the axis grid.
out_of_bounds(grid, x) == x < grid[1] \/ x > grid[Len(grid)]

\* RegularGridInterpolator._find_indices: searchsorted(grid, x) - 1 clipped
\* to 0..(len(grid) - 2); here from 1.
find_index(grid, x) ==
    LET below == Cardinality({j \in 1..Len(grid) : grid[j] < x})
    IN  IF below - 1 < 0 THEN 1
        ELSE IF below - 1 > Len(grid) - 2 THEN Len(grid) - 1
        ELSE below

\* Mutant: the distance measured from the upper neighbour.
norm_distance_from_upper(grid, x) ==
    FxDiv(grid[find_index(grid, x) + 1] - x,
          grid[find_index(grid, x) + 1] - grid[find_index(grid, x)])

\* (x - grid[i]) / (grid[i + 1] - grid[i])
norm_distance(grid, x) ==
    FxDiv(x - grid[find_index(grid, x)],
          grid[find_index(grid, x) + 1] - grid[find_index(grid, x)])

\* The weight of a corner on one axis: 1 - y at the lower neighbour, y at
\* the upper.
edge_weight(y, upper) == IF upper = 1 THEN y ELSE One - y

\* The weights of the eight corners around the point, the product over the
\* axes.  The first axis [0, 1, 2] is hit exactly by imax, with weights 0
\* and 1, so that only the corners at imax remain.
corner_weights(y1, y2, y3) ==
    <<FxMul(FxMul(edge_weight(y1, 0), edge_weight(y2, 0)), edge_weight(y3, 0)),
      FxMul(FxMul(edge_weight(y1, 0), edge_weight(y2, 0)), edge_weight(y3, 1)),
      FxMul(FxMul(edge_weight(y1, 0), edge_weight(y2, 1)), edge_weight(y3, 0)),
      FxMul(FxMul(edge_weight(y1, 0), edge_weight(y2, 1)), edge_weight(y3, 1)),
      FxMul(FxMul(edge_weight(y1, 1), edge_weight(y2, 0)), edge_weight(y3, 0)),
      FxMul(FxMul(edge_weight(y1, 1), edge_weight(y2, 0)), edge_weight(y3, 1)),
      FxMul(FxMul(edge_weight(y1, 1), edge_weight(y2, 1)), edge_weight(y3, 0)),
      FxMul(FxMul(edge_weight(y1, 1), edge_weight(y2, 1)), edge_weight(y3, 1))>>

\* values += self.values[edge_indices] * weight for one corner and one
\* coefficient k; i1, i2, i3 are the lower neighbours, from 1.
corner_term(t, imax, i1, i2, i3, w, k, d1, d2, d3) ==
    FxMul(t.values[flat_index(t.res, imax, i1 - 1 + d1, i2 - 1 + d2,
                              i3 - 1 + d3, k) + 1],
          w[4 * d1 + 2 * d2 + d3 + 1])

\* The multilinear sum over the corners, for the three coefficients.
interpolate(t, imax, i1, i2, i3, w) ==
    [k \in 1..3 |->
        corner_term(t, imax, i1, i2, i3, w, k - 1, 0, 0, 0)
      + corner_term(t, imax, i1, i2, i3, w, k - 1, 0, 0, 1)
      + corner_term(t, imax, i1, i2, i3, w, k - 1, 0, 1, 0)
      + corner_term(t, imax, i1, i2, i3, w, k - 1, 0, 1, 1)
      + corner_term(t, imax, i1, i2, i3, w, k - 1, 1, 0, 0)
      + corner_term(t, imax, i1, i2, i3, w, k - 1, 1, 0, 1)
      + corner_term(t, imax, i1, i2, i3, w, k - 1, 1, 1, 0)
      + corner_term(t, imax, i1, i2, i3, w, k - 1, 1, 1, 1)]

\* self.cubes(coords): linear interpolation, nan outside the grid
\* (bounds_error=False with the default fill_value).
cubes_call(t, co) ==
    IF \/ out_of_bounds(t.scale, co[2])
       \/ out_of_bounds(t.samples, co[3])
       \/ out_of_bounds(t.samples, co[4])
    THEN NanResult
    ELSE [finite |-> TRUE,
          value |-> interpolate(t, co[1], find_index(t.scale, co[2]),
                                find_index(t.samples, co[3]),
                                find_index(t.samples, co[4]),
                                corner_weights(norm_distance(t.scale, co[2]),
                                               norm_distance(t.samples, co[3]),
                                               norm_distance(t.samples, co[4])))]

\* Mutant: coefficients keeps its coordinates in self.scale.
coefficients_caching(st, RGB, point) ==
    IF st.cubes = <<>>
    THEN [st EXCEPT !.op = "coefficients", !.exc = "AttributeError",
                    !.RGB = RGB, !.point = point]
    ELSE [st EXCEPT !.op = "coefficients", !.exc = "none", !.RGB = RGB,
                    !.point = point, !.scale = <<coords(RGB)>>,
                    !.ret = cubes_call(st.cubes[1], coords(RGB)), !.sd = <<>>]

\* coefficients (lines 445-457); self.cubes raises AttributeError on an
\* instance that never loaded a table.  point is history: the grid sample
\* point the caller built RGB from, if any.
coefficients(st, RGB, point) ==
    IF st.cubes = <<>>
    THEN [st EXCEPT !.op = "coefficients", !.exc = "AttributeError",
                    !.RGB = RGB, !.point = point]
    ELSE [st EXCEPT !.op = "coefficients", !.exc = "none", !.RGB = RGB,
                    !.point = point,
                    !.ret = cubes_call(st.cubes[1], coords(RGB)), !.sd = <<>>]

\* RGB_to_sd (lines 459-463): spectral_model(self.coefficients(RGB), shape),
\* kept as the term of its arguments.
RGB_to_sd(st, RGB, point, shape) ==
    IF st.cubes = <<>>
    THEN [coefficients(st, RGB, point) EXCEPT !.op = "RGB_to_sd"]
    ELSE [coefficients(st, RGB, point) EXCEPT
             !.op = "RGB_to_sd",
             !.sd = <<"spectral_model", cubes_call(st.cubes[1], coords(RGB)), shape>>]

\* The RGB a caller builds from the grid sample point
\* (imax, scale[a], samples[b], samples[c]): the dominant channel imax at
\* scale[a], the channels (imax + 2) % 3 and (imax + 1) % 3 at the ratios
\* samples[b] and samples[c] of it.  a, b, c from 1.
sample_point_RGB(t, imax, a, b, c) ==
    [ch \in 1..3 |->
        IF ch = imax + 1 THEN t.scale[a]
        ELSE IF ch = ((imax + 2) % 3) + 1 THEN FxMul(t.samples[b], t.scale[a])
        ELSE FxMul(t.samples[c], t.scale[a])]

\* The grid entry coeffs[imax, a, b, c, :] of the table t; a, b, c from 1.
grid_entry(t, point) ==
    [k \in 1..3 |->
        t.values[flat_index(t.res, point[1], point[2] - 1, point[3] - 1,
                            point[4] - 1, k - 1) + 1]]

\* One step of a from_file call in progress on the file f.
from_file_step(st, f) ==
    CASE st.pc = "magic" -> from_file_magic(st, f)
      [] st.pc = "res" -> from_file_res(st, f)
      [] st.pc = "scale" -> from_file_scale(st, f)
      [] st.pc = "coeffs" -> from_file_coeffs(st, f)
      [] st.pc = "cubes" -> from_file_cubes(st)
      [] OTHER -> st

\* from_file (lines 427-443) run from the state st to its return or raise.
RECURSIVE from_file_run(_, _)
from_file_run(st, f) ==
    IF st.pc = "idle" THEN st ELSE from_file_run(from_file_step(st, f), f)

from_file(st, path) == from_file_run(from_file_open(st, path), FileContents(path))

\* The sample points of the table an instance holds.
SamplePoints(st) ==
    IF st.cubes = <<>> THEN {}
    ELSE (0..2) \X (1..st.cubes[1].res) \X (1..st.cubes[1].res) \X (1..st.cubes[1].res)

\* A colour inside the grid, and colours whose maximum lies below or above
\* the scale or whose chroma leaves [0, 1].
OtherRGBs ==
    {<<One \div 2, One \div 4, One \div 8>>,
     <<-(One \div 4), -(One \div 2), -(One \div 2)>>,
     <<One + (One \div 4), 0, 0>>,
     <<One \div 2, -(One \div 4), 0>>}

Query(st, pt) ==
    [RGB |-> sample_point_RGB(st.cubes[1], pt[1], pt[2], pt[3], pt[4]), point |-> pt]

\* Every query about the table of an instance: each of its sample points,
\* and the other colours.
Queries(st) ==
    {Query(st, pt) : pt \in SamplePoints(st)}
    \cup {[RGB |-> rgb, point |-> <<>>] : rgb \in OtherRGBs}

\* The queries made between the loads of an instance: the last sample point
\* on the axis of the second channel, and the other colours.
ProbeQueries(st) ==
    {Query(st, pt) : pt \in {s \in SamplePoints(st) : s = <<1, st.cubes[1].res, 1, 1>>}}
    \cup {[RGB |-> rgb, point |-> <<>>] : rgb \in OtherRGBs}

\* A caller calls from_file(path) on the instance.
Jakob2019Interpolator_from_file(path) ==
    /\ interp.pc = "idle"
    /\ interp.loads < MaxLoads
    /\ interp' = from_file_open(interp, path)
    /\ UNCHANGED <<pure, heap, call>>

\* The from_file call in progress takes its next step.
Jakob2019Interpolator_from_file_step ==
    /\ interp.pc # "idle"
    /\ interp' = from_file_step(interp, FileContents(interp.path))
    /\ UNCHANGED <<pure, heap, call>>

\* A caller calls coefficients(RGB) on the instance.
Jakob2019Interpolator_coefficients(q) ==
    /\ interp.pc = "idle"
    /\ interp' = coefficients(interp, q.RGB, q.point)
    /\ UNCHANGED <<pure, heap, call>>

\* A caller calls RGB_to_sd(RGB) on the instance, with the default shape.
Jakob2019Interpolator_RGB_to_sd(q) ==
    /\ interp.pc = "idle"
    /\ interp' = RGB_to_sd(interp, q.RGB, q.point, DEFAULT_SPECTRAL_SHAPE_JAKOB_2019)
    /\ UNCHANGED <<pure, heap, call>>

\* A fresh instance.
InitInterp ==
    /\ pure = PureIdle
    /\ heap = InitialHeap
    /\ call = [p \in Procs |-> IdleCall]
    /\ interp = InterpFresh

NextInterp ==
    \/ \E path \in Paths : Jakob2019Interpolator_from_file(path)
    \/ Jakob2019Interpolator_from_file_step
    \/ \E q \in ProbeQueries(interp) : Jakob2019Interpolator_coefficients(q)
    \/ \E q \in ProbeQueries(interp) : Jakob2019Interpolator_RGB_to_sd(q)

\* An instance that has loaded a complete table, and the query its caller
\* is about to make.
InitLookup ==
    /\ pure = PureIdle
    /\ heap = InitialHeap
    /\ call = [p \in Procs |-> IdleCall]
    /\ \E r \in 2..MaxRes :
          \E q \in Queries(from_file(InterpFresh, <<"table", r>>)) :
              interp = [from_file(InterpFresh, <<"table", r>>) EXCEPT !.todo = q]

NextLookup ==
    \/ Jakob2019Interpolator_coefficients(interp.todo)
    \/ Jakob2019Interpolator_RGB_to_sd(interp.todo)

(***************************************************************************)
(* Inputs of the solver                                                    *)
(***************************************************************************)

\* The inputs of the solver.
DefaultScale == LightnessScales[DEFAULT_LIGHTNESS_STEPS]

ProbeIndices == {0, 1, 21, 22, 62, 63}

Offsets == {-Eps - 1, -Eps, -1, 0, 1}

\* max(target_RGB): below, at and above the range of the scale, and at,
\* just below and just above entries of the scales that are walked.
TargetMaxima ==
    {-(One \div 4), -Eps, 0, One + (One \div 4)}
    \cup {DefaultScale[j] + d : j \in ProbeIndices, d \in Offsets}
    \cup UNION {{LightnessScales[s][j] + d : j \in 0..(s - 1), d \in Offsets} :
                s \in 1..MaxSteps}

Targets ==
    {<<m, m, m>> : m \in TargetMaxima} \cup {<<One \div 4, One \div 2, 0>>}

\* How a caller of find_coefficients passes cmfs, coefficients_0 and
\* dimensionalise.
CallerStyles ==
    {[cmfs |-> "CMFS_DEFAULT", coefficients_0 |-> <<0, 0, 0>>, dimensionalise |-> TRUE],
     [cmfs |-> "CMFS_CALLER", coefficients_0 |-> <<0, 0, One>>, dimensionalise |-> FALSE],
     [cmfs |-> "CMFS_DEFAULT", coefficients_0 |-> <<0, 0, One>>, dimensionalise |-> TRUE]}

Args(target_RGB, cmfs, coefficients_0, dimensionalise, use_feedback, lightness_steps) ==
    [target_RGB |-> target_RGB, cmfs |-> cmfs, illuminant |-> "ILLUMINANT_DEFAULT",
     coefficients_0 |-> coefficients_0, dimensionalise |-> dimensionalise,
     use_feedback |-> use_feedback, lightness_steps |-> lightness_steps]

EntryArgs(entry) ==
    IF entry = "RGB_to_sd_Jakob2019"
    THEN {Args(t, c, <<0, 0, 0>>, TRUE, f, n) :
            t \in Targets, c \in {"CMFS_DEFAULT", "CMFS_CALLER"},
            f \in BOOLEAN, n \in 0..MaxSteps}
    ELSE {Args(t, s.cmfs, s.coefficients_0, s.dimensionalise, f, n) :
            t \in Targets, s \in CallerStyles, f \in BOOLEAN, n \in 0..MaxSteps}

StartCall(entry, args) ==
    [IdleCall EXCEPT
        !.pc = IF entry = "RGB_to_sd_Jakob2019"
               THEN "RGB_to_sd_Jakob2019" ELSE "call_find_coefficients",
        !.entry = entry, !.args = args]

Entries == {"RGB_to_sd_Jakob2019", "find_coefficients"}

\* One call, by process 1.
InitSolver ==
    /\ pure = PureIdle
    /\ heap = InitialHeap
    /\ interp = InterpFresh
    /\ \E entry \in Entries : \E args \in EntryArgs(entry) :
          call = [p \in Procs |-> IF p = 1 THEN StartCall(entry, args) ELSE IdleCall]

NextSolver ==
    \E p \in Procs :
        \/ Call_find_coefficients(p)
        \/ RGB_to_sd_Jakob2019_begin(p)
        \/ find_coefficients_align(p)
        \/ find_coefficients_shape(p)
        \/ find_coefficients_feedback(p)
        \/ find_coefficients_walk_break(p)
        \/ find_coefficients_walk_iterate(p)
        \/ find_coefficients_final(p)
        \/ RGB_to_sd_Jakob2019_return(p)

\* Targets of the entry point's calls whose termination is checked: the
\* walks over the default scale that go all the way down, all the way up,
\* and no way at all.
LiveEntryTargets == {<<m, m, m>> : m \in {0, DefaultScale[21] + 1, One}}

\* The calls whose termination is checked: every call of find_coefficients,
\* and the entry point's calls on LiveEntryTargets.
LiveCalls ==
    {StartCall("find_coefficients", a) : a \in EntryArgs("find_coefficients")}
    \cup
    {StartCall("RGB_to_sd_Jakob2019", a) :
        a \in {x \in EntryArgs("RGB_to_sd_Jakob2019") :
                    x.target_RGB \in LiveEntryTargets}}

\* One call, by process 1.
InitLive ==
    /\ pure = PureIdle
    /\ heap = InitialHeap
    /\ interp = InterpFresh
    /\ \E c \in LiveCalls :
          call = [p \in Procs |-> IF p = 1 THEN c ELSE IdleCall]

\* Caller-chosen lightness_steps of the concurrent calls range over
\* 3..MaxConcSteps.
MaxConcSteps == 4

\* Targets of the concurrent calls: one just above entry 23 of the default
\* scale, one at the top of every scale.
ConcTargets == {<<m, m, m>> : m \in {DefaultScale[23] + 1, One}}

\* The calls concurrent callers make; the entry point, whose walk is over
\* the default scale, is called with the first kind of target.
ConcCalls ==
    {StartCall("find_coefficients", a) :
        a \in {Args(t, c, <<0, 0, 0>>, TRUE, f, n) :
                t \in ConcTargets, c \in {"CMFS_DEFAULT", "CMFS_CALLER"},
                f \in BOOLEAN, n \in 3..MaxConcSteps}}
    \cup
    {StartCall("RGB_to_sd_Jakob2019", a) :
        a \in {Args(<<DefaultScale[23] + 1, DefaultScale[23] + 1, DefaultScale[23] + 1>>,
                    c, <<0, 0, 0>>, TRUE, TRUE, n) :
                c \in {"CMFS_DEFAULT", "CMFS_CALLER"}, n \in 3..MaxConcSteps}}

\* Two calls, one by each process, in progress at once.
InitConc ==
    /\ pure = PureIdle
    /\ heap = InitialHeap
    /\ interp = InterpFresh
    /\ call \in [Procs -> ConcCalls]

(***************************************************************************)
(* Specifications                                                          *)
(***************************************************************************)

vars == <<pure, heap, call, interp>>

InitPure ==
    /\ InitPureInputs
    /\ heap = InitialHeap
    /\ call = [p \in Procs |-> IdleCall]
    /\ interp = InterpFresh

NextPure ==
    \/ Eval_create_lightness_scale
    \/ Eval_dimensionalise_coefficients
    \/ Eval_spectral_model

\* The pure functions on bounded inputs.
SpecPure == InitPure /\ [][NextPure]_vars

\* One call of the solver or of its entry point.
Spec == InitSolver /\ [][NextSolver]_vars

\* One call that is not suspended for ever: the interpreter keeps running
\* the call while it has a step to take.
SpecLive == InitLive /\ [][NextSolver]_vars /\ WF_vars(NextSolver)

\* Two concurrent calls over the shared heap, in every interleaving.
SpecConc == InitConc /\ [][NextSolver]_vars

\* One interpolator instance and the calls made on it, one at a time.
SpecInterp == InitInterp /\ [][NextInterp]_vars

\* The queries of a loaded instance.
SpecLookup == InitLookup /\ [][NextLookup]_vars

(***************************************************************************)
(* Claims about the pure functions (checked under SpecPure)                *)
(***************************************************************************)

Delta(s, k) == s[k + 1] - s[k]

ScaleEvaluated == pure.op = "create_lightness_scale" /\ pure.done

Dimensionalised == pure.op = "spectral_model"

\* C8: at every sample index k, the polynomial of the dimensionalised
\* coefficients at the k-th wavelength of shape.range() equals the polynomial
\* of the dimensionless coefficients at the k-th sample of
\* linspace(0, 1, len(shape.range())).
C8_DimensionaliseConsistent ==
    Dimensionalised =>
        /\ DOMAIN pure.U_shape = DOMAIN pure.U_normalised
        /\ DOMAIN pure.U_shape = 0..(shape_samples(pure.shape) - 1)
        /\ \A k \in DOMAIN pure.U_shape : pure.U_shape[k] = pure.U_normalised[k]

\* Coefficients with a quadratic and a linear term, dimensionalised for the
\* default shape (start 360, 85 samples), where U varies along the range.
C8_Witness ==
    /\ Dimensionalised
    /\ pure.shape = DEFAULT_SPECTRAL_SHAPE_JAKOB_2019
    /\ pure.cp[1] # RInt(0)
    /\ pure.cp[2] # RInt(0)
    /\ pure.U_shape[0] # pure.U_shape[84]
    /\ pure.U_shape[42] = pure.U_normalised[42]

ModelEvaluated == pure.op = "spectral_model" /\ pure.done

\* C9 as stated: every reflectance is strictly between 0 and 1.
C9_ReflectanceStrictlyInside ==
    ModelEvaluated => \A k \in DOMAIN pure.R : 0 < pure.R[k] /\ pure.R[k] < ROne

\* C9 as amended: every reflectance lies in the closed interval [0, 1].
C9_ReflectanceWithinClosedInterval ==
    ModelEvaluated => \A k \in DOMAIN pure.R : 0 <= pure.R[k] /\ pure.R[k] <= ROne

\* A spectrum that reaches 1 at one wavelength and stays strictly inside
\* (0, 1) at another.
C9_Witness ==
    /\ ModelEvaluated
    /\ \E k \in DOMAIN pure.R : pure.R[k] = ROne
    /\ \E k \in DOMAIN pure.R : 0 < pure.R[k] /\ pure.R[k] < ROne

(***************************************************************************)
(* Claims about the solver (checked under Spec)                            *)
(***************************************************************************)

\* The call of process p has come back from find_coefficients.
SolverFinished(p) == call[p].pc \in {"spectral_model", "done"}

\* C1 as stated: RGB_to_sd_Jakob2019 runs the solver with the caller's
\* use_feedback and lightness_steps: without feedback no intermediate
\* minimisation has been run, and with feedback the scale walked has
\* lightness_steps entries.
C1_EntryPointHonoursFeedbackArguments ==
    \A p \in Procs :
        (call[p].entry = "RGB_to_sd_Jakob2019" /\ SolverFinished(p)) =>
            /\ ~call[p].args.use_feedback => Len(call[p].fc.intermediates) = 0
            /\ call[p].args.use_feedback =>
                  DOMAIN call[p].fc.scale = 0..(call[p].args.lightness_steps - 1)

\* The walk of process p has begun (lines 309-313 have run).
WalkBegun(p) ==
    /\ call[p].fc.use_feedback
    /\ call[p].pc \in {"walk", "final", "spectral_model", "done"}

\* The index of the k-th intermediate minimisation of a walk from start.
WalkIndex(fc, start, k) == IF fc.going_up THEN start + (k - 1) ELSE start - (k - 1)

\* The next index from j is past the boundary of the scale, or its scale
\* value reaches or passes target.
NextReaches(fc, j, target) ==
    IF fc.going_up
    THEN IF j + 1 >= fc.lightness_steps THEN TRUE ELSE fc.scale[j + 1] >= target
    ELSE IF j <= 0 THEN TRUE ELSE fc.scale[j - 1] <= target

\* C10 for one frame, with start = floor(lightness_steps / 3) and
\* target = max(target_RGB) + 1e-10.
WalkFollowsScale(fc, start, target, stopped) ==
    /\ fc.going_up <=> (fc.scale[start] < np_max(fc.target_RGB))
    /\ fc.i = WalkIndex(fc, start, Len(fc.intermediates) + 1)
    /\ \A k \in 1..Len(fc.intermediates) :
          /\ fc.intermediates[k] = fc.scale[WalkIndex(fc, start, k)]
          /\ ~NextReaches(fc, WalkIndex(fc, start, k), target)
          /\ IF fc.going_up THEN fc.intermediates[k] < target
                            ELSE fc.intermediates[k] > target
    /\ stopped => NextReaches(fc, fc.i, target)

\* C10: with use_feedback the walk starts at index floor(lightness_steps/3),
\* moves up iff scale[start] < max(target_RGB), stops exactly when the next
\* index is past the boundary or its scale value reaches or passes
\* max(target_RGB) + 1e-10, and every scale value used as an intermediate
\* lightness is strictly below that value going up, strictly above it going
\* down.
C10_WalkStopsBeforeTarget ==
    \A p \in Procs :
        WalkBegun(p) =>
            WalkFollowsScale(call[p].fc, call[p].fc.lightness_steps \div 3,
                             np_max(call[p].fc.target_RGB) + Eps,
                             call[p].pc # "walk")

\* A walk up the caller's 5-entry scale that ran two intermediate
\* minimisations and stopped because the next scale value equals
\* max(target_RGB) + 1e-10.
C10_Witness ==
    /\ call[1].entry = "find_coefficients"
    /\ call[1].pc = "done"
    /\ call[1].fc.use_feedback
    /\ call[1].fc.going_up
    /\ call[1].fc.lightness_steps = 5
    /\ Len(call[1].fc.intermediates) = 2
    /\ call[1].fc.i + 1 < call[1].fc.lightness_steps
    /\ call[1].fc.scale[call[1].fc.i + 1] = call[1].fc.target_max

(***************************************************************************)
(* Claims about concurrent calls (checked under SpecConc)                  *)
(***************************************************************************)

\* The walk run to its break on the heap h.
RECURSIVE walk_alone(_, _)
walk_alone(fc, h) ==
    IF walk_stops(fc) THEN fc ELSE walk_alone(walk_advance(fc, h), h)

\* The frame find_coefficients ends with when it runs alone from frame fc0
\* on the heap the module is imported with.
frame_alone(fc0, copy) ==
    LET aligned == align_illuminant(InitialHeap, fc0, copy)
        fc1 == [fc0 EXCEPT !.illuminant = aligned.illuminant,
                           !.shape = aligned.heap[aligned.illuminant].shape]
        fc2 == IF fc1.use_feedback
               THEN walk_alone(feedback_begin(fc1), aligned.heap)
               ELSE fc1
    IN  final_minimize(fc2, aligned.heap)

\* What the call c of process p returns when it runs alone.
return_alone(c, p) ==
    IF c.entry = "RGB_to_sd_Jakob2019"
    THEN LET r == Returned(find_coefficients_return(
                      frame_alone(RGB_to_sd_Jakob2019_call(c.args), CopyOf(p))))
         IN  [r EXCEPT !.sd = <<"spectral_model", r.coefficients,
                                InitialHeap[c.args.cmfs].shape>>]
    ELSE Returned(find_coefficients_return(
             frame_alone(find_coefficients_call(c.args), CopyOf(p))))

\* The objects callers and the module hold: the default cmfs and illuminant
\* and the caller's cmfs.
SharedObjects == {"CMFS_DEFAULT", "ILLUMINANT_DEFAULT", "CMFS_CALLER"}

\* C6: a call never modifies the cmfs and illuminant objects it is given,
\* the module-level defaults included, and in every interleaving of two
\* concurrent calls each call returns what it returns when run alone.
C6_ConcurrentCallsIndependent ==
    /\ \A o \in SharedObjects : heap[o] = InitialHeap[o]
    /\ \A p \in Procs :
          call[p].pc = "done" => call[p].ret = return_alone(call[p], p)

\* Process 1, on the default cmfs and the shared default illuminant, has
\* returned while process 2, which aligned a copy of that illuminant to the
\* caller's cmfs, is in the middle of its walk.
C6_Witness ==
    /\ call[1].pc = "done"
    /\ call[1].args.cmfs = "CMFS_DEFAULT"
    /\ call[1].fc.illuminant = "ILLUMINANT_DEFAULT"
    /\ Len(call[1].fc.intermediates) >= 1
    /\ call[1].ret = return_alone(call[1], 1)
    /\ call[2].pc = "walk"
    /\ call[2].args.cmfs = "CMFS_CALLER"
    /\ call[2].fc.illuminant = "COPY_2"
    /\ heap["COPY_2"].shape = heap["CMFS_CALLER"].shape
    /\ Len(call[2].fc.intermediates) >= 1

(***************************************************************************)
(* Claims about Jakob2019Interpolator (checked under SpecInterp and        *)
(* SpecLookup)                                                             *)
(***************************************************************************)

\* The last call on the instance was from_file on a file whose first four
\* bytes are not "SPEC", and it has read them.
BadMagicRead ==
    /\ interp.op = "from_file"
    /\ interp.pc # "magic"
    /\ FileContents(interp.path).magic # "SPEC"

\* C2: from_file on a file whose first 4 bytes are not "SPEC" raises
\* ValueError right after reading those 4 bytes: that read is the only read
\* of the file, and res, scale and cubes are as they were before the call.
C2_BadMagicRaisesBeforeFurtherRead ==
    BadMagicRead =>
        /\ interp.pc = "idle"
        /\ interp.exc = "ValueError"
        /\ interp.reads = <<4>>
        /\ interp.pos = 0
        /\ Attributes(interp) = interp.before

\* from_file has raised on a file that has a whole table after its wrong
\* magic.
C2_Witness ==
    /\ BadMagicRead
    /\ interp.exc = "ValueError"
    /\ Len(FileContents(interp.path).words) > 1
    /\ interp.reads = <<4>>

\* coefficients has returned for an RGB of which a grid coordinate lies
\* outside the axes of the loaded table.
OutsideGrid ==
    /\ interp.op = "coefficients"
    /\ interp.cubes # <<>>
    /\ \/ out_of_bounds(interp.cubes[1].scale, coords(interp.RGB)[2])
       \/ out_of_bounds(interp.cubes[1].samples, coords(interp.RGB)[3])
       \/ out_of_bounds(interp.cubes[1].samples, coords(interp.RGB)[4])

\* C3 as stated: for an RGB whose grid coordinates fall outside the axes of
\* the loaded grid, coefficients raises no error and returns three finite
\* values.
C3_OutsideGridFinite ==
    OutsideGrid => (interp.exc = "none" /\ interp.ret.finite)

\* coefficients has returned for the RGB built from a sample point of the
\* loaded table.
SamplePointQueried ==
    /\ interp.op = "coefficients"
    /\ interp.cubes # <<>>
    /\ interp.point # <<>>

\* C4 as stated: for every grid sample point and the RGB that corresponds to
\* it, coefficients returns exactly the stored grid entry.
C4_ExactAtEverySamplePoint ==
    SamplePointQueried =>
        /\ interp.ret.finite
        /\ interp.ret.value = grid_entry(interp.cubes[1], interp.point)

\* C4 as amended: for every grid sample point whose two channel ratios are
\* samples[0] = 0 and whose scale value is positive, coefficients returns
\* exactly the stored grid entry.
C4_ExactAtSamplePointsOfOneChannel ==
    (/\ SamplePointQueried
     /\ interp.point[3] = 1
     /\ interp.point[4] = 1
     /\ interp.cubes[1].scale[interp.point[2]] > 0) =>
        /\ interp.ret.finite
        /\ interp.ret.value = grid_entry(interp.cubes[1], interp.point)

\* The stored entry of an inner scale value of the third channel's cube has
\* been returned, and it differs from the entries beside it on the scale
\* axis.
C4_Witness ==
    /\ SamplePointQueried
    /\ interp.point = <<2, 2, 1, 1>>
    /\ interp.cubes[1].res = 3
    /\ interp.ret.value = grid_entry(interp.cubes[1], <<2, 2, 1, 1>>)
    /\ interp.ret.value # grid_entry(interp.cubes[1], <<2, 1, 1, 1>>)
    /\ interp.ret.value # grid_entry(interp.cubes[1], <<2, 3, 1, 1>>)

\* C5 as stated: once the instance has loaded a table, no step of any call
\* on it changes res, scale or cubes.
C5_TableNeverChanges ==
    [][interp.cubes # <<>> => Attributes(interp)' = Attributes(interp)]_vars

\* C5 as amended: once the instance has loaded a table, no call of
\* coefficients or RGB_to_sd changes res, scale or cubes.
C5_QueriesLeaveTable ==
    [][(interp.cubes # <<>> /\ interp'.op \in {"coefficients", "RGB_to_sd"}) =>
            Attributes(interp)' = Attributes(interp)]_vars

\* RGB_to_sd has returned a spectrum from a table that was loaded by the
\* second from_file call on the instance.
C5_Witness ==
    /\ interp.op = "RGB_to_sd"
    /\ interp.cubes # <<>>
    /\ interp.loads = 2
    /\ interp.ret.finite
    /\ interp.sd # <<>>
    /\ interp.cubes[1].scale = interp.scale[1]

(***************************************************************************)
(* Claims about the walk and the seed of the solver (checked under         *)
(* SpecLive and Spec)                                                      *)
(***************************************************************************)

\* Process p is in the walk of a scale of at least one entry.
InWalk(p) == call[p].pc = "walk" /\ call[p].fc.lightness_steps >= 1

\* The index is inside the scale and at most lightness_steps - 1
\* intermediate minimisations have been run.
WalkWithinScale(fc) ==
    /\ 0 <= fc.i
    /\ fc.i <= fc.lightness_steps - 1
    /\ fc.i \in DOMAIN fc.scale
    /\ Len(fc.intermediates) <= fc.lightness_steps - 1

\* An iteration of the walk of process p moves the index by exactly one, up
\* when the walk goes up and down when it goes down, and keeps the direction.
WalkStepsByOne(p) ==
    (InWalk(p) /\ call'[p].pc = "walk" /\ call'[p] # call[p]) =>
        /\ call'[p].fc.going_up = call[p].fc.going_up
        /\ call'[p].fc.i = call[p].fc.i + (IF call[p].fc.going_up THEN 1 ELSE -1)
        /\ Len(call'[p].fc.intermediates) = Len(call[p].fc.intermediates) + 1

\* C11: for every lightness_steps >= 1 and every target_RGB the walk
\* terminates: each iteration moves the index by exactly one in one fixed
\* direction, the index stays within 0..lightness_steps-1, at most
\* lightness_steps - 1 intermediate minimisations are run, and the walk is
\* followed by the final minimisation.
C11_WalkTerminatesWithinScale ==
    /\ [][\A p \in Procs : WalkStepsByOne(p)]_vars
    /\ [](\A p \in Procs : (WalkBegun(p) /\ call[p].fc.lightness_steps >= 1) =>
                                WalkWithinScale(call[p].fc))
    /\ \A p \in Procs : InWalk(p) ~> (call[p].pc = "done")

\* A walk up a 5-entry scale from index 1 that stopped at the last index,
\* after lightness_steps - 2 intermediate minimisations, and was followed by
\* the final minimisation.
C11_Witness ==
    /\ call[1].pc = "done"
    /\ call[1].fc.use_feedback
    /\ call[1].fc.lightness_steps = 5
    /\ call[1].fc.going_up
    /\ call[1].fc.i = 4
    /\ Len(call[1].fc.intermediates) = 3
    /\ call[1].ret # NoRet

\* The coefficients_0 the caller of find_coefficients passed: its argument,
\* or the default of line 244 when the entry point made the call.
CallerSeed(p) ==
    IF call[p].entry = "find_coefficients"
    THEN call[p].args.coefficients_0 ELSE <<0, 0, 0>>

\* The seed the code has in hand for the next minimisation of process p, if
\* seeds are carried in order: the solution of the last intermediate
\* minimisation, or the caller's coefficients_0 when none was run.
SeedInOrder(p) ==
    IF Len(call[p].fc.intermediates) = 0
    THEN CallerSeed(p) ELSE call[p].fc.opt.x

\* An iteration of the walk of process p runs the intermediate minimisation
\* against the intermediate Lab, seeded in order.
IntermediateSeededInOrder(p) ==
    (call[p].pc = "walk" /\ call'[p].pc = "walk" /\ call'[p] # call[p]) =>
        call'[p].fc.opt =
            minimize(SeedInOrder(p),
                     RGB_to_Lab(intermediate_RGB(call[p].fc),
                                heap[call[p].fc.illuminant]),
                     call[p].fc.shape, heap[call[p].fc.cmfs])

\* The step of process p past the walk runs the final minimisation against
\* the true target, seeded in order, and returns its objective value.
FinalSeededInOrder(p) ==
    (call[p].pc = "final" /\ call'[p].pc # "final") =>
        /\ (~call[p].fc.use_feedback) => Len(call[p].fc.intermediates) = 0
        /\ call'[p].fc.opt =
            minimize(SeedInOrder(p),
                     RGB_to_Lab(call[p].fc.target_RGB, heap[call[p].fc.illuminant]),
                     call[p].fc.shape, heap[call[p].fc.cmfs])
        /\ call'[p].ret.error = call'[p].fc.opt.fun

\* C12: the seed is carried in order: the first minimisation is seeded with
\* the caller's coefficients_0, each later intermediate minimisation with the
\* solution of the one before it, the final minimisation against the true
\* target with the last intermediate solution (the caller's coefficients_0
\* when use_feedback is false or no intermediate minimisation was run), and
\* the returned error is the objective value of the final minimisation.
C12_SeedCarriedInOrder ==
    [][\A p \in Procs : IntermediateSeededInOrder(p) /\ FinalSeededInOrder(p)]_vars

\* A call of find_coefficients with a seed of the caller's own has returned
\* after a walk of at least two intermediate minimisations.
C12_Witness ==
    /\ call[1].pc = "done"
    /\ call[1].entry = "find_coefficients"
    /\ call[1].args.coefficients_0 = <<0, 0, One>>
    /\ call[1].fc.use_feedback
    /\ Len(call[1].fc.intermediates) >= 2
    /\ call[1].ret.error = call[1].fc.opt.fun

(***************************************************************************)
(* Claim about a failed load (checked under SpecInterp)                    *)
(***************************************************************************)

\* A from_file call has ended with an exception.
LoadFailed ==
    /\ interp.op = "from_file"
    /\ interp.pc = "idle"
    /\ interp.exc # "none"

\* C13 as stated: a from_file call that fails for any reason (bad magic, or a
\* file truncated after the magic) leaves res, scale and cubes all exactly as
\* they were before the call.  Violated: a file truncated inside the scale
\* or the grid fails after self.res (and self.scale) were assigned.
C13_FailedLoadLeavesAttributes ==
    LoadFailed => Attributes(interp) = interp.before

====
